---------------------------- MODULE Spec2Model ----------------------------
(***************************************************************************)
(* Model of the raiden monitoring service (monitoring_service/server.py):  *)
(* construction with its sanity checks, the confirmed-event callbacks      *)
(* on_channel_open / on_channel_close / on_channel_settled, the message    *)
(* callback on_monitor_request, the greenlet task list and the loop of     *)
(* _run that reaps finished tasks.                                         *)
(***************************************************************************)
EXTENDS Integers, Sequences, FiniteSets, TLC

\* ------------------------------------------------------------------------
\* Bounds
\* ------------------------------------------------------------------------
MaxChannel == 2
MaxNonce == 1
MaxTasks == 2
MaxChainId == 1
MaxConstructions == 2
MaxMessages == 2
MaxLen == 4
MaxBlock == 3

Channels == 1..MaxChannel
Participants == {"A", "B"}
Nonces == 1..MaxNonce
ChainIds == 0..MaxChainId

\* dict iteration order of the rows of one channel
ParticipantOrder == <<"A", "B">>

\* ------------------------------------------------------------------------
\* Addresses: <<id, spelling>>, a 20 byte value (id "MS" the service, "MC"
\* the monitoring contract, "X" any other) written as a hex string in one of
\* two spellings ("checksum", "lower").  is_same_address compares the
\* normalized spellings.
\* ------------------------------------------------------------------------
to_normalized_address(a) == <<a[1], "lower">>

is_same_address(left, right) ==
    to_normalized_address(left) = to_normalized_address(right)

\* private_key_to_address(self.private_key): a checksum address (line 60)
address == <<"MS", "checksum">>
monitor_contract_address == <<"MC", "checksum">>

\* ------------------------------------------------------------------------
\* State
\* ------------------------------------------------------------------------
VARIABLES
    open_channels,      \* self.open_channels: Set[int]
    task_list,          \* self.task_list: List[Greenlet]
    monitor_requests,   \* state_db: (channel, signer) -> nonce, 0 = no row
    stop_event,         \* self.stop_event
    pc,                 \* position of _run: "init", "loop", "exited"
    listeners,          \* confirmed listeners registered with the blockchain monitor
    blockchain_running, \* BlockchainMonitor started and not stopped
    received,           \* number of messages the transport has delivered
    last,               \* the callback that ran last and its arguments
    web3_network,       \* self.blockchain.web3.version.network
    identity,           \* state_db: persisted chain id and addresses
    registered,         \* the monitoring contract knows the service address
    result,             \* outcome of the last MonitoringService(...) call
    msg_callbacks,      \* callbacks registered with the transport
    constructions,      \* number of MonitoringService(...) calls so far
    closed,             \* channels for which a Close event has been processed
    at_close,           \* per channel, its rows of the store at its last Close event
    seen,               \* log entries delivered so far
    dedup_open,         \* open set of a service that receives every log entry once
    delivered,          \* number of deliveries so far
    log,                \* the log of the chain: log[h] is the entry of block h
    head,               \* height of the chain head
    marker,             \* blockchain monitor: last processed confirmed height
    cursor,             \* blockchain monitor: next block of the batch, 0 = no cycle
    batch_to,           \* blockchain monitor: last block of the batch
    wt                  \* position of wait_tasks: "idle", "waiting", "returned"

rt_vars == <<open_channels, task_list, monitor_requests, stop_event, pc,
             listeners, blockchain_running, received, last>>
ctor_vars == <<web3_network, identity, registered, result, msg_callbacks,
               constructions>>
dd_vars == <<closed, at_close, seen, dedup_open, delivered>>
em_vars == <<log, head, marker, cursor, batch_to>>
vars == <<open_channels, task_list, monitor_requests, stop_event, pc,
          listeners, blockchain_running, received, last,
          web3_network, identity, registered, result, msg_callbacks,
          constructions, closed, at_close, seen, dedup_open, delivered,
          log, head, marker, cursor, batch_to, wt>>

\* ------------------------------------------------------------------------
\* Messages, tasks, store
\* ------------------------------------------------------------------------
MonitorRequest(c, p, n) ==
    [channel_identifier |-> c, non_closing_signer |-> p, nonce |-> n]

MonitorRequests ==
    {MonitorRequest(c, p, n) : c \in Channels, p \in Participants, n \in Nonces}

StoreMonitorRequest(mr) == [kind |-> "StoreMonitorRequest", mr |-> mr, state |-> "running"]
OnChannelClose(mr) == [kind |-> "OnChannelClose", mr |-> mr, state |-> "running"]
OnChannelSettle(mr) == [kind |-> "OnChannelSettle", mr |-> mr, state |-> "running"]

EmptyDB == [k \in Channels \X Participants |-> 0]

\* state_db.get_monitor_requests(channel_id): {(channel, signer): request}
get_monitor_requests(db, channel_id) ==
    [k \in {kk \in Channels \X Participants : kk[1] = channel_id /\ db[kk] # 0}
        |-> MonitorRequest(k[1], k[2], db[k])]

\* state_db.delete_monitor_request(channel_id)
delete_monitor_request(db, channel_id) ==
    [k \in Channels \X Participants |-> IF k[1] = channel_id THEN 0 ELSE db[k]]

\* .items() / .values() of the mapping, in row order
RECURSIVE items(_, _)
items(pkey_to_mr, order) ==
    IF order = <<>> THEN <<>>
    ELSE LET rest == items(pkey_to_mr, Tail(order))
             ks == {k \in DOMAIN pkey_to_mr : k[2] = Head(order)}
         IN  IF ks = {} THEN rest ELSE <<CHOOSE k \in ks : TRUE>> \o rest

\* ------------------------------------------------------------------------
\* MonitoringService: task spawning
\* ------------------------------------------------------------------------
start_task(tl, task) == Append(tl, task)

\* the loop of on_channel_close over pkey_to_mr.items()
RECURSIVE close_loop_all(_, _, _, _)
close_loop_all(keys, pkey_to_mr, closing_participant, tl) ==
    IF keys = <<>> THEN tl
    ELSE close_loop_all(Tail(keys), pkey_to_mr, closing_participant,
                        start_task(tl, OnChannelClose(pkey_to_mr[Head(keys)])))

RECURSIVE close_loop_inverted(_, _, _, _)
close_loop_inverted(keys, pkey_to_mr, closing_participant, tl) ==
    IF keys = <<>> THEN tl
    ELSE LET non_closing_signer == Head(keys)[2]
         IN  IF non_closing_signer # closing_participant
             THEN close_loop_inverted(Tail(keys), pkey_to_mr, closing_participant, tl)
             ELSE close_loop_inverted(Tail(keys), pkey_to_mr, closing_participant,
                             start_task(tl, OnChannelClose(pkey_to_mr[Head(keys)])))

RECURSIVE close_loop(_, _, _, _)
close_loop(keys, pkey_to_mr, closing_participant, tl) ==
    IF keys = <<>> THEN tl
    ELSE LET non_closing_signer == Head(keys)[2]
         IN  IF non_closing_signer = closing_participant
             THEN close_loop(Tail(keys), pkey_to_mr, closing_participant, tl)
             ELSE close_loop(Tail(keys), pkey_to_mr, closing_participant,
                             start_task(tl, OnChannelClose(pkey_to_mr[Head(keys)])))

settle_loop_first(keys, pkey_to_mr, tl) ==
    IF keys = <<>> THEN tl
    ELSE start_task(tl, OnChannelSettle(pkey_to_mr[Head(keys)]))

\* the loop of on_channel_settled over get_monitor_requests(channel_id).values()
RECURSIVE settle_loop(_, _, _)
settle_loop(keys, pkey_to_mr, tl) ==
    IF keys = <<>> THEN tl
    ELSE settle_loop(Tail(keys), pkey_to_mr,
                     start_task(tl, OnChannelSettle(pkey_to_mr[Head(keys)])))

\* ------------------------------------------------------------------------
\* MonitoringService: callbacks
\* ------------------------------------------------------------------------
on_channel_open(channel_id) ==
    /\ open_channels' = open_channels \cup {channel_id}
    /\ UNCHANGED <<task_list, monitor_requests>>

on_channel_close_discard_when_disputed(channel_id, closing_participant) ==
    LET pkey_to_mr == get_monitor_requests(monitor_requests, channel_id)
    IN  /\ task_list' = close_loop(items(pkey_to_mr, ParticipantOrder), pkey_to_mr,
                                   closing_participant, task_list)
        /\ open_channels' = IF task_list' # task_list
                             THEN open_channels \ {channel_id}
                             ELSE open_channels
        /\ UNCHANGED monitor_requests

on_channel_close(channel_id, closing_participant) ==
    LET pkey_to_mr == get_monitor_requests(monitor_requests, channel_id)
    IN  /\ task_list' = close_loop(items(pkey_to_mr, ParticipantOrder), pkey_to_mr,
                                   closing_participant, task_list)
        /\ open_channels' = open_channels \ {channel_id}
        /\ UNCHANGED monitor_requests

on_channel_settled_keep(channel_id) ==
    LET pkey_to_mr == get_monitor_requests(monitor_requests, channel_id)
    IN  /\ task_list' = settle_loop(items(pkey_to_mr, ParticipantOrder), pkey_to_mr,
                                    task_list)
        /\ UNCHANGED <<open_channels, monitor_requests>>

on_channel_settled(channel_id) ==
    LET pkey_to_mr == get_monitor_requests(monitor_requests, channel_id)
    IN  /\ task_list' = settle_loop(items(pkey_to_mr, ParticipantOrder), pkey_to_mr,
                                    task_list)
        /\ monitor_requests' = delete_monitor_request(monitor_requests, channel_id)
        /\ UNCHANGED open_channels

on_monitor_request_unchecked(monitor_request) ==
    /\ task_list' = start_task(task_list, StoreMonitorRequest(monitor_request))
    /\ UNCHANGED <<open_channels, monitor_requests>>

on_monitor_request(monitor_request) ==
    LET channel_id == monitor_request.channel_identifier
    IN  IF channel_id \notin open_channels
        THEN UNCHANGED <<open_channels, task_list, monitor_requests>>
        ELSE /\ task_list' = start_task(task_list, StoreMonitorRequest(monitor_request))
             /\ UNCHANGED <<open_channels, monitor_requests>>

\* messages of the transport: monitor requests and one message of another type
OtherMessage == [type |-> "Other"]
Messages == [type : {"MonitorRequest"}, mr : MonitorRequests] \cup {OtherMessage}

on_message_event(message) ==
    IF message.type = "MonitorRequest"
    THEN on_monitor_request(message.mr)
    ELSE UNCHANGED <<open_channels, task_list, monitor_requests>>

\* ------------------------------------------------------------------------
\* History: the callback that ran last, its arguments, whether its channel
\* was in the open set when it was called and the number of tasks it
\* appended to the task list
\* ------------------------------------------------------------------------
NoMR == [channel_identifier |-> 0, non_closing_signer |-> "", nonce |-> 0]

Callback(op, c, who, mr) ==
    [op |-> op, channel |-> c, who |-> who, mr |-> mr,
     was_open |-> c \in open_channels,
     n |-> Len(task_list') - Len(task_list)]

NoCallback ==
    [op |-> "none", channel |-> 0, who |-> "", mr |-> NoMR,
     was_open |-> FALSE, n |-> 0]

\* tasks appended to the task list by the callback that ran last
Spawned == SubSeq(task_list, Len(task_list) - last.n + 1, Len(task_list))

\* ------------------------------------------------------------------------
\* Deliveries of the blockchain monitor and of the transport
\* ------------------------------------------------------------------------
Delivering == listeners /\ blockchain_running

ChannelOpened(c) ==
    /\ Delivering
    /\ on_channel_open(c)
    /\ last' = Callback("open", c, "", NoMR)
    /\ UNCHANGED <<stop_event, pc, listeners, blockchain_running, received>>
    /\ UNCHANGED <<ctor_vars, dd_vars, em_vars, wt>>

ChannelClosed(c, p) ==
    /\ Delivering
    /\ on_channel_close(c, p)
    /\ Len(task_list') <= MaxTasks
    /\ last' = Callback("close", c, p, NoMR)
    /\ UNCHANGED <<stop_event, pc, listeners, blockchain_running, received>>
    /\ UNCHANGED <<ctor_vars, dd_vars, em_vars, wt>>

ChannelSettled(c) ==
    /\ Delivering
    /\ on_channel_settled(c)
    /\ Len(task_list') <= MaxTasks
    /\ last' = Callback("settle", c, "", NoMR)
    /\ UNCHANGED <<stop_event, pc, listeners, blockchain_running, received>>
    /\ UNCHANGED <<ctor_vars, dd_vars, em_vars, wt>>

MessageReceived(m) ==
    /\ msg_callbacks > 0
    /\ received < MaxMessages
    /\ received' = received + 1
    /\ on_message_event(m)
    /\ Len(task_list') <= MaxTasks
    /\ last' = Callback("message", IF m.type = "MonitorRequest"
                                   THEN m.mr.channel_identifier ELSE 0,
                        "", IF m.type = "MonitorRequest" THEN m.mr ELSE NoMR)
    /\ UNCHANGED <<stop_event, pc, listeners, blockchain_running>>
    /\ UNCHANGED <<ctor_vars, dd_vars, em_vars, wt>>

\* ------------------------------------------------------------------------
\* Tasks (greenlets): each runs once, to success or failure
\* ------------------------------------------------------------------------
SetState(tl, i, st) == [tl EXCEPT ![i].state = st]

\* StoreMonitorRequest: writes the request when it is properly signed and its
\* nonce is greater than the stored one of the same (channel, signer)
StoreTaskRuns(i) ==
    /\ i \in DOMAIN task_list
    /\ task_list[i].kind = "StoreMonitorRequest"
    /\ task_list[i].state = "running"
    /\ \E signed \in BOOLEAN :
         LET mr == task_list[i].mr
             k == <<mr.channel_identifier, mr.non_closing_signer>>
         IN  IF signed /\ mr.nonce > monitor_requests[k]
             THEN /\ monitor_requests' = [monitor_requests EXCEPT ![k] = mr.nonce]
                  /\ task_list' = SetState(task_list, i, "ok")
             ELSE /\ monitor_requests' = monitor_requests
                  /\ task_list' = SetState(task_list, i, "failed")
    /\ last' = NoCallback
    /\ UNCHANGED <<open_channels, stop_event, pc, listeners, blockchain_running, received>>
    /\ UNCHANGED <<ctor_vars, dd_vars, em_vars, wt>>

\* OnChannelClose / OnChannelSettle: one transaction, which succeeds or fails
TransactionTaskRuns(i) ==
    /\ i \in DOMAIN task_list
    /\ task_list[i].kind \in {"OnChannelClose", "OnChannelSettle"}
    /\ task_list[i].state = "running"
    /\ \E st \in {"ok", "failed"} : task_list' = SetState(task_list, i, st)
    /\ last' = NoCallback
    /\ UNCHANGED <<open_channels, monitor_requests, stop_event, pc, listeners,
                   blockchain_running, received>>
    /\ UNCHANGED <<ctor_vars, dd_vars, em_vars, wt>>

\* ------------------------------------------------------------------------
\* MonitoringService._run and stop
\* ------------------------------------------------------------------------
Remove(tl, i) == SubSeq(tl, 1, i - 1) \o SubSeq(tl, i + 1, Len(tl))

Completed(tl) == {i \in DOMAIN tl : tl[i].state # "running"}

\* transport.start(), blockchain.start(), add_confirmed_listener x 3
Run_start ==
    /\ result = "ok"
    /\ pc = "init"
    /\ pc' = "test"
    /\ listeners' = TRUE
    /\ blockchain_running' = TRUE
    /\ last' = NoCallback
    /\ UNCHANGED <<open_channels, task_list, monitor_requests, stop_event, received>>
    /\ UNCHANGED <<ctor_vars, dd_vars, em_vars, wt>>

\* while self.stop_event.is_set() is False
Run_test ==
    /\ pc = "test"
    /\ pc' = IF stop_event THEN "exited" ELSE "wait"
    /\ last' = NoCallback
    /\ UNCHANGED <<open_channels, task_list, monitor_requests, stop_event,
                   listeners, blockchain_running, received>>
    /\ UNCHANGED <<ctor_vars, dd_vars, em_vars, wt>>

\* a loop that removes the first task of the list, finished or not
Run_reap_first(i) ==
    /\ pc = "wait"
    /\ i \in Completed(task_list)
    /\ task_list' = Remove(task_list, 1)
    /\ pc' = "test"
    /\ last' = Callback("reap", 0, task_list[i].state, task_list[i].mr)
    /\ UNCHANGED <<open_channels, monitor_requests, stop_event, listeners,
                   blockchain_running, received>>
    /\ UNCHANGED <<ctor_vars, dd_vars, em_vars, wt>>

\* a loop that ends when the task it reaps has failed
Run_reap_stops_on_failure(i) ==
    /\ pc = "wait"
    /\ i \in Completed(task_list)
    /\ task_list' = Remove(task_list, i)
    /\ pc' = "test"
    /\ stop_event' = (stop_event \/ task_list[i].state = "failed")
    /\ last' = Callback("reap", 0, task_list[i].state, task_list[i].mr)
    /\ UNCHANGED <<open_channels, monitor_requests, listeners,
                   blockchain_running, received>>
    /\ UNCHANGED <<ctor_vars, dd_vars, em_vars, wt>>

\* gevent.wait(self.task_list, timeout=5, count=1) returns a finished task,
\* which is logged with its value and removed; last records the removal, with
\* the value of the task in the field who
Run_reap(i) ==
    /\ pc = "wait"
    /\ i \in Completed(task_list)
    /\ task_list' = Remove(task_list, i)
    /\ pc' = "test"
    /\ last' = Callback("reap", 0, task_list[i].state, task_list[i].mr)
    /\ UNCHANGED <<open_channels, monitor_requests, stop_event, listeners,
                   blockchain_running, received>>
    /\ UNCHANGED <<ctor_vars, dd_vars, em_vars, wt>>

\* gevent.wait times out: sleep(1), continue
Run_timeout ==
    /\ pc = "wait"
    /\ Completed(task_list) = {}
    /\ pc' = "test"
    /\ last' = NoCallback
    /\ UNCHANGED <<open_channels, task_list, monitor_requests, stop_event,
                   listeners, blockchain_running, received>>
    /\ UNCHANGED <<ctor_vars, dd_vars, em_vars, wt>>

\* a stop that also drops the tasks in flight
stop_killing_tasks ==
    /\ result = "ok"
    /\ blockchain_running' = FALSE
    /\ stop_event' = TRUE
    /\ task_list' = <<>>
    /\ last' = NoCallback
    /\ UNCHANGED <<open_channels, monitor_requests, pc, listeners, received>>
    /\ UNCHANGED <<ctor_vars, dd_vars, em_vars, wt>>

stop ==
    /\ result = "ok"
    /\ blockchain_running' = FALSE
    /\ stop_event' = TRUE
    /\ last' = NoCallback
    /\ UNCHANGED <<open_channels, task_list, monitor_requests, pc, listeners, received>>
    /\ UNCHANGED <<ctor_vars, dd_vars, em_vars, wt>>

\* wait_tasks is called
WaitTasks_call ==
    /\ result = "ok"
    /\ wt # "waiting"
    /\ wt' = "waiting"
    /\ last' = NoCallback
    /\ UNCHANGED <<open_channels, task_list, monitor_requests, stop_event, pc,
                   listeners, blockchain_running, received>>
    /\ UNCHANGED <<ctor_vars, dd_vars, em_vars>>

\* if len(self.task_list) == 0: return; otherwise it sleeps and tests again
WaitTasks_return ==
    /\ wt = "waiting"
    /\ Len(task_list) = 0
    /\ wt' = "returned"
    /\ last' = NoCallback
    /\ UNCHANGED <<open_channels, task_list, monitor_requests, stop_event, pc,
                   listeners, blockchain_running, received>>
    /\ UNCHANGED <<ctor_vars, dd_vars, em_vars>>

\* ------------------------------------------------------------------------
\* MonitoringService.__init__
\* ------------------------------------------------------------------------
NoAddress == <<"", "">>
Uninitialized ==
    [initialized |-> FALSE, chain_id |-> 0,
     monitoring_contract_address |-> NoAddress, server_address |-> NoAddress]

\* state_db.setup_db(chain_id, monitor_contract_address, address)
setup_db(chain_id, contract, server) ==
    [initialized |-> TRUE, chain_id |-> chain_id,
     monitoring_contract_address |-> contract, server_address |-> server]

PersistedIdentities ==
    {Uninitialized} \cup
    {setup_db(n, c, s) :
        n \in ChainIds,
        c \in {<<"MC", "checksum">>, <<"MC", "lower">>, <<"X", "checksum">>},
        s \in {<<"MS", "checksum">>, <<"MS", "lower">>, <<"X", "checksum">>}}

\* the sanity checks, lines 76-92, on the store as it is after line 75
sanity_checks_registration_first(db, chain_id, is_registered) ==
    IF ~is_registered THEN "ServiceNotRegistered"
    ELSE IF db.chain_id # chain_id THEN "StateDBInvalid"
    ELSE IF ~is_same_address(db.server_address, address) THEN "StateDBInvalid"
    ELSE IF ~is_same_address(db.monitoring_contract_address, monitor_contract_address)
         THEN "StateDBInvalid"
    ELSE "ok"

sanity_checks_no_contract(db, chain_id, is_registered) ==
    IF db.chain_id # chain_id THEN "StateDBInvalid"
    ELSE IF ~is_same_address(db.server_address, address) THEN "StateDBInvalid"
    ELSE IF ~is_registered THEN "ServiceNotRegistered"
    ELSE "ok"

sanity_checks(db, chain_id, is_registered) ==
    IF db.chain_id # chain_id THEN "StateDBInvalid"
    ELSE IF ~is_same_address(db.server_address, address) THEN "StateDBInvalid"
    ELSE IF ~is_same_address(db.monitoring_contract_address, monitor_contract_address)
         THEN "StateDBInvalid"
    ELSE IF ~is_registered THEN "ServiceNotRegistered"
    ELSE "ok"

\* MonitoringService(private_key, state_db, transport, blockchain, ...)
Construct ==
    /\ constructions < MaxConstructions
    /\ result # "ok"
    /\ constructions' = constructions + 1
    /\ msg_callbacks' = msg_callbacks + 1
    /\ LET chain_id == web3_network
       IN  /\ identity' = IF identity.initialized = FALSE
                          THEN setup_db(chain_id, monitor_contract_address, address)
                          ELSE identity
           /\ result' = sanity_checks(identity', chain_id, registered)
    /\ last' = [NoCallback EXCEPT !.op = "construct"]
    /\ UNCHANGED <<web3_network, registered>>
    /\ UNCHANGED <<open_channels, task_list, monitor_requests, stop_event, pc,
                   listeners, blockchain_running, received>>
    /\ UNCHANGED <<dd_vars, em_vars, wt>>

\* register_service(web3, contracts_manager, contract address, private key)
RegisterService ==
    /\ ~registered
    /\ registered' = TRUE
    /\ last' = NoCallback
    /\ UNCHANGED <<web3_network, identity, result, msg_callbacks, constructions>>
    /\ UNCHANGED <<open_channels, task_list, monitor_requests, stop_event, pc,
                   listeners, blockchain_running, received>>
    /\ UNCHANGED <<dd_vars, em_vars, wt>>

\* ------------------------------------------------------------------------
\* Specification of the running service: the state after a successful
\* construction on a fresh store
\* ------------------------------------------------------------------------
Init ==
    /\ open_channels = {}
    /\ task_list = <<>>
    /\ monitor_requests = EmptyDB
    /\ stop_event = FALSE
    /\ pc = "init"
    /\ listeners = FALSE
    /\ blockchain_running = FALSE
    /\ received = 0
    /\ last = NoCallback
    /\ web3_network = 1
    /\ identity = setup_db(1, monitor_contract_address, address)
    /\ registered = TRUE
    /\ result = "ok"
    /\ msg_callbacks = 1
    /\ constructions = 1
    /\ closed = {}
    /\ at_close = [c \in Channels |-> [p \in Participants |-> 0]]
    /\ seen = {}
    /\ dedup_open = {}
    /\ delivered = 0
    /\ log = <<>>
    /\ head = 0
    /\ marker = 0
    /\ cursor = 0
    /\ batch_to = 0
    /\ wt = "idle"

Next ==
    \/ Run_start
    \/ Run_test
    \/ \E i \in 1..MaxTasks : Run_reap(i)
    \/ Run_timeout
    \/ stop
    \/ \E c \in Channels : ChannelOpened(c)
    \/ \E c \in Channels, p \in Participants : ChannelClosed(c, p)
    \/ \E c \in Channels : ChannelSettled(c)
    \/ \E m \in Messages : MessageReceived(m)
    \/ \E i \in 1..MaxTasks : StoreTaskRuns(i)
    \/ \E i \in 1..MaxTasks : TransactionTaskRuns(i)

Spec == Init /\ [][Next]_vars

\* ------------------------------------------------------------------------
\* Specification of construction: any persisted identity, registered or not
\* ------------------------------------------------------------------------
CtorInit ==
    /\ open_channels = {}
    /\ task_list = <<>>
    /\ monitor_requests = EmptyDB
    /\ stop_event = FALSE
    /\ pc = "init"
    /\ listeners = FALSE
    /\ blockchain_running = FALSE
    /\ received = 0
    /\ last = NoCallback
    /\ web3_network \in ChainIds
    /\ identity \in PersistedIdentities
    /\ registered \in BOOLEAN
    /\ result = "none"
    /\ msg_callbacks = 0
    /\ constructions = 0
    /\ closed = {}
    /\ at_close = [c \in Channels |-> [p \in Participants |-> 0]]
    /\ seen = {}
    /\ dedup_open = {}
    /\ delivered = 0
    /\ log = <<>>
    /\ head = 0
    /\ marker = 0
    /\ cursor = 0
    /\ batch_to = 0
    /\ wt = "idle"

CtorNext ==
    \/ Construct
    \/ RegisterService
    \/ Run_start

CtorSpec == CtorInit /\ [][CtorNext]_vars

\* ------------------------------------------------------------------------
\* Specification of deliveries: the log of the chain holds, per channel, one
\* ChannelOpened, then one ChannelClosed, then one ChannelSettled entry; the
\* blockchain monitor hands every entry to the listeners in log order and
\* may hand an entry it has delivered before to them again
\* ------------------------------------------------------------------------
OpenedEntry(c) == <<"open", c, "">>
ClosedEntry(c, p) == <<"close", c, p>>
SettledEntry(c) == <<"settle", c, "">>

\* entry e can follow the entries before: per channel one ChannelOpened, then
\* one ChannelClosed, then one ChannelSettled
Follows(e, before) ==
    CASE e[1] = "open" -> \A x \in before : x[2] # e[2]
      [] e[1] = "close" -> /\ OpenedEntry(e[2]) \in before
                           /\ \A x \in before : ~(x[1] \in {"close", "settle"} /\ x[2] = e[2])
      [] OTHER -> /\ \E x \in before : x[1] = "close" /\ x[2] = e[2]
                  /\ e \notin before

InLogOrder(e) == Follows(e, seen)

Deliverable(e) == delivered < MaxLen /\ (e \in seen \/ InLogOrder(e))

ReplayFrame ==
    /\ UNCHANGED <<stop_event, pc, listeners, blockchain_running, received>>
    /\ UNCHANGED <<ctor_vars, em_vars, wt>>

ReplayOpened(c) ==
    /\ Delivering
    /\ Deliverable(OpenedEntry(c))
    /\ on_channel_open(c)
    /\ last' = Callback("open", c, "", NoMR)
    /\ seen' = seen \cup {OpenedEntry(c)}
    /\ dedup_open' = IF OpenedEntry(c) \in seen THEN dedup_open
                     ELSE dedup_open \cup {c}
    /\ delivered' = delivered + 1
    /\ UNCHANGED <<closed, at_close>>
    /\ ReplayFrame

ReplayClosed(c, p) ==
    /\ Delivering
    /\ Deliverable(ClosedEntry(c, p))
    /\ on_channel_close(c, p)
    /\ last' = Callback("close", c, p, NoMR)
    /\ seen' = seen \cup {ClosedEntry(c, p)}
    /\ dedup_open' = IF ClosedEntry(c, p) \in seen THEN dedup_open
                     ELSE dedup_open \ {c}
    /\ delivered' = delivered + 1
    /\ closed' = closed \cup {c}
    /\ at_close' = [at_close EXCEPT ![c] = [q \in Participants |-> monitor_requests[<<c, q>>]]]
    /\ ReplayFrame

ReplaySettled(c) ==
    /\ Delivering
    /\ Deliverable(SettledEntry(c))
    /\ on_channel_settled(c)
    /\ last' = Callback("settle", c, "", NoMR)
    /\ seen' = seen \cup {SettledEntry(c)}
    /\ delivered' = delivered + 1
    /\ UNCHANGED <<closed, at_close, dedup_open>>
    /\ ReplayFrame

ReplayMessage(m) ==
    /\ msg_callbacks > 0
    /\ received < MaxMessages
    /\ received' = received + 1
    /\ on_message_event(m)
    /\ last' = Callback("message", IF m.type = "MonitorRequest"
                                   THEN m.mr.channel_identifier ELSE 0,
                        "", IF m.type = "MonitorRequest" THEN m.mr ELSE NoMR)
    /\ UNCHANGED <<stop_event, pc, listeners, blockchain_running>>
    /\ UNCHANGED <<ctor_vars, dd_vars, em_vars, wt>>

\* the service after _run has registered its listeners and entered the loop
ReplayInit ==
    /\ open_channels = {}
    /\ task_list = <<>>
    /\ monitor_requests = EmptyDB
    /\ stop_event = FALSE
    /\ pc = "wait"
    /\ listeners = TRUE
    /\ blockchain_running = TRUE
    /\ received = 0
    /\ last = NoCallback
    /\ web3_network = 1
    /\ identity = setup_db(1, monitor_contract_address, address)
    /\ registered = TRUE
    /\ result = "ok"
    /\ msg_callbacks = 1
    /\ constructions = 1
    /\ closed = {}
    /\ at_close = [c \in Channels |-> [p \in Participants |-> 0]]
    /\ seen = {}
    /\ dedup_open = {}
    /\ delivered = 0
    /\ log = <<>>
    /\ head = 0
    /\ marker = 0
    /\ cursor = 0
    /\ batch_to = 0
    /\ wt = "idle"

ReplayNext ==
    \/ \E c \in Channels : ReplayOpened(c)
    \/ \E c \in Channels, p \in Participants : ReplayClosed(c, p)
    \/ \E c \in Channels : ReplaySettled(c)
    \/ \E m \in Messages : ReplayMessage(m)
    \/ \E i \in 1..(MaxMessages + 2 * MaxLen) : StoreTaskRuns(i)

ReplaySpec == ReplayInit /\ [][ReplayNext]_vars

Key(mr) == <<mr.channel_identifier, mr.non_closing_signer>>

\* ------------------------------------------------------------------------
\* Specification of the scenario "a channel opens, both participants have a
\* request stored, A closes the channel, the channel settles": the runs of
\* the service in which exactly this is delivered
\* ------------------------------------------------------------------------
ScenarioOpens(c) ==
    /\ seen = {}
    /\ ReplayOpened(c)

ScenarioRequest(m) ==
    /\ m.type = "MonitorRequest"
    /\ m.mr.channel_identifier \in open_channels
    /\ \A i \in DOMAIN task_list : Key(task_list[i].mr) # Key(m.mr)
    /\ ReplayMessage(m)

ScenarioCloses(c) ==
    /\ c \in open_channels
    /\ monitor_requests[<<c, "A">>] # 0 /\ monitor_requests[<<c, "B">>] # 0
    /\ ReplayClosed(c, "A")

ScenarioSettles(c) ==
    /\ ClosedEntry(c, "A") \in seen
    /\ SettledEntry(c) \notin seen
    /\ ReplaySettled(c)

ScenarioNext ==
    \/ \E c \in Channels : ScenarioOpens(c)
    \/ \E m \in Messages : ScenarioRequest(m)
    \/ \E i \in 1..MaxMessages : StoreTaskRuns(i)
    \/ \E i \in 1..(MaxMessages + 3) : TransactionTaskRuns(i)
    \/ \E c \in Channels : ScenarioCloses(c)
    \/ \E c \in Channels : ScenarioSettles(c)

ScenarioSpec == ReplayInit /\ [][ScenarioNext]_vars

\* ------------------------------------------------------------------------
\* Specification of one callback: the running service in any state of its
\* open set and its store, with or without a task still running, receives
\* one event or one message
\* ------------------------------------------------------------------------
HandlerInit ==
    /\ open_channels \in SUBSET Channels
    /\ monitor_requests \in [Channels \X Participants -> 0..MaxNonce]
    /\ task_list \in {<<>>, <<OnChannelSettle(MonitorRequest(1, "A", 1))>>}
    /\ stop_event = FALSE
    /\ pc = "wait"
    /\ listeners = TRUE
    /\ blockchain_running = TRUE
    /\ received = 0
    /\ last = NoCallback
    /\ web3_network = 1
    /\ identity = setup_db(1, monitor_contract_address, address)
    /\ registered = TRUE
    /\ result = "ok"
    /\ msg_callbacks = 1
    /\ constructions = 1
    /\ closed = {}
    /\ at_close = [c \in Channels |-> [p \in Participants |-> 0]]
    /\ seen = {}
    /\ dedup_open = {}
    /\ delivered = 0
    /\ log = <<>>
    /\ head = 0
    /\ marker = 0
    /\ cursor = 0
    /\ batch_to = 0
    /\ wt = "idle"

HandlerNext ==
    /\ last = NoCallback
    /\ \/ \E c \in Channels : ChannelOpened(c)
       \/ \E c \in Channels, p \in Participants : ChannelClosed(c, p)
       \/ \E c \in Channels : ChannelSettled(c)
       \/ \E m \in Messages : MessageReceived(m)

HandlerSpec == HandlerInit /\ [][HandlerNext]_vars

\* ------------------------------------------------------------------------
\* Specification of the blockchain monitor and the events endpoint of the
\* REST api: the monitor polls the log up to the confirmed height and hands
\* the entries of the batch to the listeners, a cycle may fail before the
\* marker is advanced, and PUT /events hands its payload to handle_event
\* ------------------------------------------------------------------------
required_confirmations == 1

Entries ==
    {OpenedEntry(c) : c \in Channels}
      \cup {ClosedEntry(c, p) : c \in Channels, p \in Participants}
      \cup {SettledEntry(c) : c \in Channels}

Logs ==
    {l \in [1..MaxBlock -> Entries] :
        \A h \in 1..MaxBlock : Follows(l[h], {l[j] : j \in 1..(h - 1)})}

\* the listeners of the kind of the entry are called with it
handle_event(e) ==
    /\ Delivering
    /\ delivered < MaxLen
    /\ CASE e[1] = "open" -> on_channel_open(e[2])
         [] e[1] = "close" -> on_channel_close(e[2], e[3])
         [] OTHER -> on_channel_settled(e[2])
    /\ last' = Callback(e[1], e[2], e[3], NoMR)
    /\ seen' = seen \cup {e}
    /\ delivered' = delivered + 1
    /\ dedup_open' = CASE e \in seen -> dedup_open
                       [] e[1] = "open" -> dedup_open \cup {e[2]}
                       [] e[1] = "close" -> dedup_open \ {e[2]}
                       [] OTHER -> dedup_open
    /\ closed' = IF e[1] = "close" THEN closed \cup {e[2]} ELSE closed
    /\ at_close' = IF e[1] = "close"
                   THEN [at_close EXCEPT ![e[2]] =
                           [q \in Participants |-> monitor_requests[<<e[2], q>>]]]
                   ELSE at_close
    /\ UNCHANGED <<stop_event, pc, listeners, blockchain_running, received>>
    /\ UNCHANGED <<ctor_vars, wt>>

\* a block is mined
Mine ==
    /\ head < MaxBlock
    /\ head' = head + 1
    /\ last' = NoCallback
    /\ UNCHANGED <<open_channels, task_list, monitor_requests, stop_event, pc,
                   listeners, blockchain_running, received>>
    /\ UNCHANGED <<ctor_vars, dd_vars, log, marker, cursor, batch_to, wt>>

\* a polling cycle starts: the entries of the blocks after the marker up to
\* the confirmed height are fetched
PollFetch ==
    /\ blockchain_running
    /\ cursor = 0
    /\ head - required_confirmations > marker
    /\ batch_to' = head - required_confirmations
    /\ cursor' = marker + 1
    /\ last' = NoCallback
    /\ UNCHANGED <<open_channels, task_list, monitor_requests, stop_event, pc,
                   listeners, blockchain_running, received>>
    /\ UNCHANGED <<ctor_vars, dd_vars, log, head, marker, wt>>

\* the next entry of the batch is handed to the listeners
PollDeliver ==
    /\ cursor # 0
    /\ cursor <= batch_to
    /\ handle_event(log[cursor])
    /\ cursor' = cursor + 1
    /\ UNCHANGED <<log, head, marker, batch_to>>

\* all listeners of the batch have run: the marker is advanced
PollAdvance ==
    /\ cursor # 0
    /\ cursor > batch_to
    /\ marker' = batch_to
    /\ cursor' = 0
    /\ last' = NoCallback
    /\ UNCHANGED <<open_channels, task_list, monitor_requests, stop_event, pc,
                   listeners, blockchain_running, received>>
    /\ UNCHANGED <<ctor_vars, dd_vars, log, head, batch_to, wt>>

\* a call of the node fails during the cycle: the cycle ends, the marker stays
PollFail ==
    /\ cursor # 0
    /\ cursor <= batch_to
    /\ cursor' = 0
    /\ last' = NoCallback
    /\ UNCHANGED <<open_channels, task_list, monitor_requests, stop_event, pc,
                   listeners, blockchain_running, received>>
    /\ UNCHANGED <<ctor_vars, dd_vars, log, head, marker, batch_to, wt>>

\* BlockchainEvents.put: self.blockchain.handle_event(request.get_json())
BlockchainEvents_put(json_data) ==
    /\ handle_event(json_data)
    /\ UNCHANGED em_vars

MonitorInit ==
    /\ open_channels = {}
    /\ task_list = <<>>
    /\ monitor_requests = EmptyDB
    /\ stop_event = FALSE
    /\ pc = "wait"
    /\ listeners = TRUE
    /\ blockchain_running = TRUE
    /\ received = 0
    /\ last = NoCallback
    /\ web3_network = 1
    /\ identity = setup_db(1, monitor_contract_address, address)
    /\ registered = TRUE
    /\ result = "ok"
    /\ msg_callbacks = 1
    /\ constructions = 1
    /\ closed = {}
    /\ at_close = [c \in Channels |-> [p \in Participants |-> 0]]
    /\ seen = {}
    /\ dedup_open = {}
    /\ delivered = 0
    /\ log \in Logs
    /\ head = 0
    /\ marker = 0
    /\ cursor = 0
    /\ batch_to = 0
    /\ wt = "idle"

MonitorNext ==
    \/ Mine
    \/ PollFetch
    \/ PollDeliver
    \/ PollAdvance
    \/ PollFail
    \/ \E json_data \in Entries : BlockchainEvents_put(json_data)

MonitorSpec == MonitorInit /\ [][MonitorNext]_vars

\* ------------------------------------------------------------------------
\* Specification of the loop of _run: the service is in its loop with
\* channel 1 open and some tasks in flight; further requests arrive, tasks end
\* with success or failure, stop is called at any time.  The loop greenlet is
\* scheduled whenever it can run.
\* ------------------------------------------------------------------------
InFlightTasks ==
    {StoreMonitorRequest(MonitorRequest(1, "A", 1)),
     OnChannelSettle(MonitorRequest(1, "B", 1))}

InFlight == UNION {[1..n -> InFlightTasks] : n \in 0..MaxTasks}

LoopInit ==
    /\ open_channels = {1}
    /\ task_list \in InFlight
    /\ monitor_requests = EmptyDB
    /\ stop_event = FALSE
    /\ pc = "test"
    /\ listeners = TRUE
    /\ blockchain_running = TRUE
    /\ received = 0
    /\ last = NoCallback
    /\ web3_network = 1
    /\ identity = setup_db(1, monitor_contract_address, address)
    /\ registered = TRUE
    /\ result = "ok"
    /\ msg_callbacks = 1
    /\ constructions = 1
    /\ closed = {}
    /\ at_close = [c \in Channels |-> [p \in Participants |-> 0]]
    /\ seen = {}
    /\ dedup_open = {}
    /\ delivered = 0
    /\ log = <<>>
    /\ head = 0
    /\ marker = 0
    /\ cursor = 0
    /\ batch_to = 0
    /\ wt = "idle"

Reaps == \E i \in 1..MaxTasks : Run_reap(i)
StoreTasks == \E i \in 1..MaxTasks : StoreTaskRuns(i)
TransactionTasks == \E i \in 1..MaxTasks : TransactionTaskRuns(i)

\* a monitor request of a channel in the open set arrives
Accepts(m) ==
    /\ m.type = "MonitorRequest"
    /\ m.mr.channel_identifier \in open_channels
    /\ MessageReceived(m)

LoopNext ==
    \/ Run_test
    \/ Reaps
    \/ Run_timeout
    \/ stop
    \/ \E m \in Messages : Accepts(m)
    \/ StoreTasks
    \/ TransactionTasks

ShutdownNext ==
    \/ LoopNext
    \/ WaitTasks_call
    \/ WaitTasks_return

LoopFairness ==
    /\ WF_vars(Run_test)
    /\ WF_vars(Reaps)
    /\ WF_vars(Run_timeout)

LoopSpec == LoopInit /\ [][LoopNext]_vars /\ LoopFairness

\* the same with calls of wait_tasks at any time, where moreover every task
\* in flight ends and wait_tasks, once called, is scheduled whenever it can run
ShutdownSpec ==
    /\ LoopInit /\ [][ShutdownNext]_vars /\ LoopFairness
    /\ WF_vars(StoreTasks)
    /\ WF_vars(TransactionTasks)
    /\ WF_vars(WaitTasks_return)

\* ------------------------------------------------------------------------
\* Properties
\* ------------------------------------------------------------------------

\* the requests the store holds for channel c
StoredFor(db, c) ==
    {MonitorRequest(c, p, db[<<c, p>>]) : p \in {q \in Participants : db[<<c, q>>] # 0}}

Count(tl, kind) == Cardinality({i \in DOMAIN tl : tl[i].kind = kind})

\* in a step: the old task list is kept, and the tasks appended to it
KeepsTasks ==
    /\ Len(task_list') >= Len(task_list)
    /\ SubSeq(task_list', 1, Len(task_list)) = task_list

Appended == SubSeq(task_list', Len(task_list) + 1, Len(task_list'))

AppendedTasks == {Appended[i] : i \in DOMAIN Appended}

\* C1: a Close event of channel c with closing participant P appends no
\* dispute task (OnChannelClose) whose request has the key (c, P), whatever
\* the store holds
C1_SelfExclusion ==
    [][last'.op = "close" =>
         /\ KeepsTasks
         /\ \A i \in DOMAIN Appended :
              ~(/\ Appended[i].kind = "OnChannelClose"
                /\ Key(Appended[i].mr) = <<last'.channel, last'.who>>)]_vars

\* a Close was processed while the store held a request of the closing participant
C1_Witness ==
    /\ last.op = "close"
    /\ monitor_requests[<<last.channel, last.who>>] # 0

\* C2: dispute tasks are appended by Close events only, each carries a request
\* the store held for the closed channel when the event was processed, and a
\* Close of an open channel appends exactly one dispute task per stored
\* request of that channel whose signer is not the closing participant
C2_DisputesFromStore ==
    [][/\ Count(task_list', "OnChannelClose") > Count(task_list, "OnChannelClose")
            => last'.op = "close"
       /\ last'.op = "close" =>
            /\ KeepsTasks
            /\ \A i \in DOMAIN Appended :
                 \E mr \in StoredFor(monitor_requests, last'.channel) :
                    Appended[i] = OnChannelClose(mr)
       /\ (last'.op = "close" /\ last'.channel \in open_channels) =>
            LET eligible == {mr \in StoredFor(monitor_requests, last'.channel) :
                                mr.non_closing_signer # last'.who}
            IN  /\ Len(Appended) = Cardinality(eligible)
                /\ AppendedTasks = {OnChannelClose(mr) : mr \in eligible}]_vars

\* a Close of an open channel has appended a dispute task
C2_Witness ==
    /\ last.op = "close"
    /\ last.was_open
    /\ last.n = 1
    /\ Spawned[1].kind = "OnChannelClose"
    /\ Spawned[1].mr.non_closing_signer # last.who

\* C3: a monitor request for a channel that is not in the open set appends no
\* task and changes neither the open set nor the task list nor the store, and
\* a StoreMonitorRequest task is appended only for a channel in the open set
C3_DropWhenNotOpen ==
    [][/\ (/\ last'.op = "message"
           /\ last'.mr # NoMR
           /\ last'.mr.channel_identifier \notin open_channels)
            => UNCHANGED <<open_channels, task_list, monitor_requests>>
       /\ Count(task_list', "StoreMonitorRequest") > Count(task_list, "StoreMonitorRequest")
            => /\ last'.op = "message"
               /\ last'.mr.channel_identifier \in open_channels]_vars

\* a monitor request was dropped while another channel was open
C3_Witness ==
    /\ last.op = "message"
    /\ last.mr # NoMR
    /\ ~last.was_open
    /\ last.n = 0
    /\ open_channels # {}

\* C4: a channel for which a Close was processed is never in the open set
\* again, and reward-claim tasks are appended for a channel only after a
\* Close of that channel was processed
C4_Lifecycle ==
    /\ \A c \in closed : c \notin open_channels
    /\ (last.op = "settle" /\ last.n > 0) => last.channel \in closed

\* C5: a Close event for a channel that is not in the open set changes
\* neither the open set nor the task list nor the store
C5_CloseNotOpenIgnored ==
    [][(last'.op = "close" /\ last'.channel \notin open_channels)
         => UNCHANGED <<open_channels, task_list, monitor_requests>>]_vars

\* C6: after any deliveries with duplicates the open set equals the open set
\* of a service that processed every log entry once, at its first delivery
C6_DedupEquivalence == open_channels = dedup_open

\* the scenario of C7 on channel c: no entry was delivered twice, the store
\* holds a request of A and one of B for c when c, open, closes with closing
\* participant A, and holds the same two requests when c settles after that
NoDuplicates == delivered = Cardinality(seen)

ScenarioClose(c) ==
    /\ last'.op = "close" /\ last'.channel = c /\ last'.who = "A"
    /\ NoDuplicates
    /\ c \in open_channels
    /\ monitor_requests[<<c, "A">>] # 0 /\ monitor_requests[<<c, "B">>] # 0

ScenarioSettle(c) ==
    /\ last'.op = "settle" /\ last'.channel = c
    /\ NoDuplicates
    /\ ClosedEntry(c, "A") \in seen
    /\ at_close[c]["A"] # 0 /\ at_close[c]["B"] # 0
    /\ \A p \in Participants : monitor_requests[<<c, p>>] = at_close[c][p]

RequestOf(c, p) == MonitorRequest(c, p, monitor_requests[<<c, p>>])

C8_SettleClaimsAndDeletes ==
    [][last'.op = "settle" =>
         LET c == last'.channel
             stored == StoredFor(monitor_requests, c)
         IN  /\ KeepsTasks
             /\ Len(Appended) = Cardinality(stored)
             /\ AppendedTasks = {OnChannelSettle(mr) : mr \in stored}
             /\ StoredFor(monitor_requests', c) = {}
             /\ \A k \in Channels \X Participants :
                   k[1] # c => monitor_requests'[k] = monitor_requests[k]]_vars

\* a Settle of a channel that was never closed (it is still open) appended a
\* reward-claim task and deleted its request while another channel has one
C8_Witness ==
    /\ last.op = "settle"
    /\ last.was_open
    /\ last.n >= 1
    /\ StoredFor(monitor_requests, last.channel) = {}
    /\ \E k \in Channels \X Participants : k[1] # last.channel /\ monitor_requests[k] # 0

\* the persisted identity differs from the current configuration
IdentityDiffers(db, chain_id) ==
    \/ db.chain_id # chain_id
    \/ db.server_address[1] # address[1]
    \/ db.monitoring_contract_address[1] # monitor_contract_address[1]

Constructing == constructions' = constructions + 1

\* C9: with an initialized store the constructor fails with StateDBInvalid
\* exactly when the persisted chain id, service address or contract address
\* differs from the configuration; with an uninitialized store it writes the
\* identity of the configuration and does not fail with StateDBInvalid
C9_IdentityCheck ==
    [][Constructing =>
         /\ identity.initialized =>
              /\ identity' = identity
              /\ (result' = "StateDBInvalid") <=> IdentityDiffers(identity, web3_network)
         /\ ~identity.initialized =>
              /\ identity' = setup_db(web3_network, monitor_contract_address, address)
              /\ ~IdentityDiffers(identity', web3_network)
              /\ result' # "StateDBInvalid"]_vars

\* construction failed on a store whose contract address alone differs
C9_Witness ==
    /\ result = "StateDBInvalid"
    /\ identity.initialized
    /\ identity.chain_id = web3_network
    /\ identity.server_address[1] = address[1]
    /\ identity.monitoring_contract_address[1] # monitor_contract_address[1]

\* C10: the constructor fails with ServiceNotRegistered exactly when the
\* identity matches and the address is not registered, succeeds exactly when
\* the identity matches and the address is registered, and reports
\* StateDBInvalid whenever the identity differs, registered or not
C10_RegistrationCheck ==
    [][Constructing =>
         /\ (result' = "ServiceNotRegistered") <=>
               (~registered /\ ~IdentityDiffers(identity', web3_network))
         /\ (result' = "ok") <=>
               (registered /\ ~IdentityDiffers(identity', web3_network))
         /\ IdentityDiffers(identity', web3_network) => result' = "StateDBInvalid"
         /\ result' \in {"ok", "StateDBInvalid", "ServiceNotRegistered"}]_vars

\* the second construction succeeded after the address was registered
C10_Witness ==
    /\ result = "ok"
    /\ constructions = 2
    /\ registered

\* C11: a construction on a persisted identity whose chain id differs from
\* the chain id of the node fails with StateDBInvalid, and when it fails no
\* callback of the service is registered with the transport or with the
\* blockchain monitor
C11_NoRegistrationBeforeMismatch ==
    [][(/\ Constructing
        /\ identity.initialized
        /\ identity.chain_id # web3_network)
         => /\ result' = "StateDBInvalid"
            /\ msg_callbacks' = 0
            /\ ~listeners']_vars

\* the requests of channel c in the store that a Close by p has to dispute
Eligible(db, c, p) == {mr \in StoredFor(db, c) : mr.non_closing_signer # p}

\* C12: a Close event of a channel for which the store holds no request of a
\* signer other than the closing participant appends no task and changes
\* nothing in the store, and after every Close event of channel c, c is not
\* in the open set and the rest of the open set is as it was
C12_CloseWithoutEligible ==
    [][last'.op = "close" =>
         /\ open_channels' = open_channels \ {last'.channel}
         /\ Eligible(monitor_requests, last'.channel, last'.who) = {}
              => /\ task_list' = task_list
                 /\ monitor_requests' = monitor_requests]_vars

\* a Close of an open channel whose only stored request is the closing
\* participant's own was processed: no task, the channel left the open set
C12_Witness ==
    /\ last.op = "close"
    /\ last.was_open
    /\ last.n = 0
    /\ monitor_requests[<<last.channel, last.who>>] # 0
    /\ Eligible(monitor_requests, last.channel, last.who) = {}
    /\ last.channel \notin open_channels
    /\ task_list = <<>>

\* the entry is in the log in a block that has reached the confirmation depth
Confirmed(e) ==
    \E h \in DOMAIN log : log[h] = e /\ h + required_confirmations <= head

\* C13: whatever polling cycles, failed cycles and payloads of the events
\* endpoint there were, no log entry has been handed to the listeners more
\* than once, and every entry handed to them is in a block of the log that
\* has reached the confirmation depth
C13_AtMostOnceConfirmed ==
    /\ delivered = Cardinality(seen)
    /\ \A e \in seen : Confirmed(e)

\* a step that takes tasks off the task list
Removal == Len(task_list') < Len(task_list)

\* C14: every step that takes a task off the task list takes off exactly one
\* task, which had completed (so a task that has not completed is never
\* removed, and a removed task is removed once), and with the loop scheduled
\* fairly, whenever the list holds completed tasks there is a later state in
\* which it holds none, every one of them having been removed, unless the
\* stop signal is set
C14_CompletedReaped ==
    /\ [][Removal => \E i \in Completed(task_list) :
                         task_list' = Remove(task_list, i)]_vars
    /\ (Completed(task_list) # {}) ~> (Completed(task_list) = {} \/ stop_event)

\* a request of B was accepted while the loop was running, its store task
\* has written it, and the loop has removed every task
C14_Witness ==
    /\ last.op = "reap"
    /\ last.mr = MonitorRequest(1, "B", 1)
    /\ monitor_requests[<<1, "B">>] # 0
    /\ received > 0
    /\ ~stop_event
    /\ task_list = <<>>

\* a step in which stop takes effect
StopStep ==
    \/ ~stop_event /\ stop_event'
    \/ blockchain_running /\ ~blockchain_running'

\* C15 as stated: stop sets the stop signal, stops the blockchain monitor and
\* leaves the task list, the tasks, the open set and the store as they are;
\* once the signal is set no task is removed from the task list any more and
\* the loop exits
C15_StopAsStated ==
    /\ [][StopStep => /\ stop_event' /\ ~blockchain_running'
                      /\ UNCHANGED <<task_list, open_channels, monitor_requests>>]_vars
    /\ [][stop_event => ~Removal]_vars
    /\ stop_event ~> (pc = "exited")

\* C15 amended: stop sets the stop signal, stops the blockchain monitor and
\* leaves the task list, the tasks, the open set and the store as they are;
\* once the signal is set the loop removes at most one more task, the one its
\* wait in progress returns, never waits again and exits
C15_Stop ==
    /\ [][StopStep => /\ stop_event' /\ ~blockchain_running'
                      /\ UNCHANGED <<task_list, open_channels, monitor_requests>>]_vars
    /\ [][(stop_event /\ Removal) => (pc = "wait" /\ pc' = "test")]_vars
    /\ [][(stop_event /\ pc # "wait") => pc' # "wait"]_vars
    /\ [][stop_event => stop_event']_vars
    /\ stop_event ~> (pc = "exited")

\* the loop has exited after stop and a completed task and a running task
\* are still in the task list
C15_Witness ==
    /\ stop_event
    /\ ~blockchain_running
    /\ pc = "exited"
    /\ Completed(task_list) # {}
    /\ \E i \in DOMAIN task_list : task_list[i].state = "running"

\* C16: wait_tasks returns only when the task list is empty, and, every task
\* in flight ending at some time, a call of wait_tasks returns at some time,
\* before and after stop
C16_WaitTasksReturns ==
    /\ [][(wt = "waiting" /\ wt' = "returned") => Len(task_list) = 0]_vars
    /\ (wt = "waiting") ~> (wt = "returned")

\* C17: a step in which a task fails changes nothing but the state of that
\* task; the loop removes a failed task as it removes a successful one: that
\* task alone leaves the list, the stop signal, the open set, the store, the
\* listeners and the message callback stay as they are, and if the signal is
\* not set the loop goes on to its next wait
C17_FailureContained ==
    /\ [][\A i \in DOMAIN task_list :
            (/\ Len(task_list') = Len(task_list)
             /\ task_list[i].state = "running"
             /\ task_list'[i].state = "failed")
              => /\ task_list' = SetState(task_list, i, "failed")
                 /\ UNCHANGED <<stop_event, open_channels, pc, listeners,
                                blockchain_running, msg_callbacks>>]_vars
    /\ [][last'.op = "reap" =>
            /\ \E i \in Completed(task_list) :
                  /\ task_list[i].state = last'.who
                  /\ task_list' = Remove(task_list, i)
            /\ pc' = "test"
            /\ UNCHANGED <<stop_event, open_channels, monitor_requests, listeners,
                           blockchain_running, msg_callbacks>>]_vars
    /\ [][(last.op = "reap" /\ ~stop_event /\ pc = "test" /\ pc' # pc)
            => pc' = "wait"]_vars

\* the loop has removed a failed task while the signal was not set, and the
\* other task of the list is still running
C17_Witness ==
    /\ last.op = "reap"
    /\ last.who = "failed"
    /\ ~stop_event
    /\ pc = "test"
    /\ Len(task_list) = 1
    /\ task_list[1].state = "running"
    /\ listeners /\ blockchain_running /\ msg_callbacks > 0

\* C18: a construction that fails leaves the persisted identity as it was; in
\* particular on an uninitialized store with an unregistered address it
\* fails with ServiceNotRegistered and the store is uninitialized afterwards
C18_FailedConstructionKeepsStore ==
    [][Constructing =>
         /\ result' # "ok" => identity' = identity
         /\ (~identity.initialized /\ ~registered)
              => /\ result' = "ServiceNotRegistered"
                 /\ ~identity'.initialized]_vars

\* C19: when every log entry was delivered once, the store holds no request
\* of a channel whose Settle event has been processed, whenever the store
\* tasks accepted before ran
C19_NoRequestAfterSettle ==
    \A c \in Channels :
        (NoDuplicates /\ SettledEntry(c) \in seen)
            => StoredFor(monitor_requests, c) = {}

\* C20: when every log entry was delivered once, for every store task that
\* has succeeded and whose channel has been closed by another participant
\* than its signer, the task list holds a dispute task with the request of
\* that signer for that channel, of the same nonce or a later one
C20_AcceptedIsDisputed ==
    \A i \in DOMAIN task_list : \A p \in Participants :
        (/\ NoDuplicates
         /\ task_list[i].kind = "StoreMonitorRequest"
         /\ task_list[i].state = "ok"
         /\ ClosedEntry(task_list[i].mr.channel_identifier, p) \in seen
         /\ p # task_list[i].mr.non_closing_signer)
          => \E j \in DOMAIN task_list :
                /\ task_list[j].kind = "OnChannelClose"
                /\ Key(task_list[j].mr) = Key(task_list[i].mr)
                /\ task_list[j].mr.nonce >= task_list[i].mr.nonce

=============================================================================
